---- MODULE Spec2Model ----
(***************************************************************************)
(* ETF portfolio tracker, cloud storage version (src/app.js): the ledger   *)
(* of transactions, the positions replayed from it, the handlers that      *)
(* mutate the ledger (add, delete, import), the two stores it is saved to, *)
(* the page's initialisation, the price map with its quote requests and    *)
(* what the dashboard draws from positions and prices; and the earlier     *)
(* local-storage version (src/unnamed/part_000), which patches the stored  *)
(* positions with each added record.                                       *)
(*                                                                         *)
(* Numbers are JavaScript numbers in the source.  They are modelled as     *)
(* exact rationals <<n, d>> in lowest terms with d > 0, so every statement *)
(* about avgEntry and invested is a statement in rational arithmetic;      *)
(* NaN and the infinities are modelled only where the local-storage        *)
(* version divides without a guard.  The free-text fields (notes,          *)
(* strategy) carry no behaviour and are left out of the records.           *)
(***************************************************************************)
EXTENDS Integers, Sequences, FiniteSets, TLC

(***************************************************************************)
(* Bounds of the model.                                                    *)
(***************************************************************************)
\* longest ledger the handlers build (addTransaction stops appending there)
MaxLedger == 2
\* how many records of initialTransactions the seeded ledger keeps
SeedLen == 1
\* how many saves may be awaiting window.storage.set at the same time
MaxInFlight == 2
\* longest ledger of the stepwise replay
MaxReplay == 3
\* how many timer-driven quote requests may be awaiting their response
MaxTimerFetch == 1
\* how many records the form of part_000 adds to its initial ledger
MaxPatch == 2

(***************************************************************************)
(* Rational arithmetic.                                                    *)
(***************************************************************************)
Abs(n) == IF n < 0 THEN -n ELSE n

RECURSIVE GCD(_, _)
GCD(a, b) == IF b = 0 THEN a ELSE GCD(b, a % b)

Norm(q) ==
    LET s == IF q[2] < 0 THEN -1 ELSE 1
        g == GCD(Abs(q[1]), Abs(q[2]))
    IN  IF q[1] = 0 THEN <<0, 1>> ELSE <<(s * q[1]) \div g, (s * q[2]) \div g>>

Num(n) == <<n, 1>>
Zero == Num(0)
\* a decimal literal with two places, such as 54.06
Dec(hundredths) == Norm(<<hundredths, 100>>)

\* the common factors are taken out before a multiplication, so that the
\* products stay within the integers of the model checker
RAdd(a, b) ==
    LET g == GCD(a[2], b[2])
    IN  Norm(<<a[1] * (b[2] \div g) + b[1] * (a[2] \div g), (a[2] \div g) * b[2]>>)
RSub(a, b) == RAdd(a, <<-b[1], b[2]>>)
RMul(a, b) ==
    LET g1 == GCD(Abs(a[1]), b[2])
        g2 == GCD(Abs(b[1]), a[2])
    IN  IF a[1] = 0 \/ b[1] = 0 THEN Zero
        ELSE Norm(<<(a[1] \div g1) * (b[1] \div g2), (a[2] \div g2) * (b[2] \div g1)>>)
\* only used with b # 0, as the source guards its one division
RDiv(a, b) == RMul(a, Norm(<<b[2], b[1]>>))
RGt0(a) == a[1] > 0
RLe0(a) == a[1] <= 0
RLt0(a) == a[1] < 0
RGe(a, b) == a[1] * b[2] >= b[1] * a[2]

(***************************************************************************)
(* Records.  A date is the day as the number YYYYMMDD, which orders as the *)
(* Date objects the source compares.                                       *)
(***************************************************************************)
Tx(date, etf, action, shares, price, total) ==
    [date |-> date, etf |-> etf, action |-> action,
     shares |-> shares, price |-> price, total |-> total]

\* const initialTransactions: the 17 seed records
initialTransactions ==
    << Tx(20240115, "SOXX", "BUY", Num(107), Dec(28000), Num(29960)),
       Tx(20240115, "VWO", "BUY", Num(139), Dec(5406), Num(7515)),
       Tx(20240115, "AIA", "BUY", Num(78), Dec(9518), Num(7424)),
       Tx(20240115, "SCHD", "BUY", Num(449), Dec(2786), Num(12509)),
       Tx(20240615, "VWO", "BUY", Num(274), Dec(5438), Num(14900)),
       Tx(20241213, "SOXX", "BUY", Num(48), Dec(31000), Num(14880)),
       Tx(20241213, "IBIT", "BUY", Num(784), Dec(5100), Num(39984)),
       Tx(20241213, "ARKK", "BUY", Num(184), Dec(8150), Num(14996)),
       Tx(20241215, "SOXX", "BUY", Num(30), Dec(30500), Num(9150)),
       Tx(20241215, "IWM", "BUY", Num(30), Dec(25383), Num(7615)),
       Tx(20241229, "IAU", "BUY", Num(370), Dec(8172), Num(30236)),
       Tx(20241229, "SLV", "BUY", Num(305), Dec(6553), Num(19987)),
       Tx(20241230, "ARKK", "BUY", Num(256), Dec(7800), Num(19968)),
       Tx(20241230, "IWM", "BUY", Num(79), Dec(24900), Num(19671)),
       Tx(20250102, "ARKK", "BUY", Num(126), Dec(7850), Num(9891)),
       Tx(20250102, "IBIT", "BUY", Num(625), Dec(4800), Num(30000)),
       Tx(20250103, "IWM", "BUY", Num(80), Dec(24870), Num(19896)) >>

(***************************************************************************)
(* The order renderTransactions and deleteTransaction put the ledger in.   *)
(***************************************************************************)
RECURSIVE InsertByDate(_, _)
\* t goes behind every row whose date is not earlier (the sort is stable)
InsertByDate(rows, t) ==
    IF rows = <<>> THEN <<t>>
    ELSE IF Head(rows).date >= t.date
         THEN <<Head(rows)>> \o InsertByDate(Tail(rows), t)
         ELSE <<t>> \o rows

RECURSIVE SortFrom(_, _)
SortFrom(rows, txs) ==
    IF txs = <<>> THEN rows
    ELSE SortFrom(InsertByDate(rows, Head(txs)), Tail(txs))

\* [...transactions].sort((a, b) => new Date(b.date) - new Date(a.date))
sortedTransactions(txs) == SortFrom(<<>>, txs)

(***************************************************************************)
(* recalculatePortfolioFromTransactions and the parts of its loop body.    *)
(***************************************************************************)
\* a faulty variant of NewPosition: a new position starts with capital reserved
NewPositionReserving(etf) ==
    [etf |-> etf, shares |-> Zero, avgEntry |-> Zero, invested |-> Zero,
     reserved |-> Num(1)]

\* the object literal pushed for a symbol seen for the first time
NewPosition(etf) ==
    [etf |-> etf, shares |-> Zero, avgEntry |-> Zero, invested |-> Zero,
     reserved |-> Zero]

\* a faulty variant of FindPosition: the callback never matches, every record opens a
\* new position
FindPositionNever(pf, etf) == 0

\* a faulty variant of FindPosition: the callback matches any position (p.etf = t.etf
\* written as an assignment), so the first one is always taken
FindPositionAny(pf, etf) == IF Len(pf) > 0 THEN 1 ELSE 0

\* portfolio.find(p => p.etf === t.etf): the index of the first position of
\* the symbol, 0 when there is none
FindPosition(pf, etf) ==
    IF \E i \in 1..Len(pf) : pf[i].etf = etf
    THEN CHOOSE i \in 1..Len(pf) :
            /\ pf[i].etf = etf
            /\ \A j \in 1..(i - 1) : pf[j].etf # etf
    ELSE 0

\* a faulty variant of BuyPosition: the cost of the purchase is recomputed as
\* shares * price
BuyPositionRecomputed(p, t) ==
    LET newTotalShares == RAdd(p.shares, t.shares)
        newTotalInvested == RAdd(p.invested, RMul(t.shares, t.price))
    IN  [p EXCEPT
            !.avgEntry = IF RGt0(newTotalShares)
                         THEN RDiv(newTotalInvested, newTotalShares)
                         ELSE Zero,
            !.shares = newTotalShares,
            !.invested = newTotalInvested]

\* the BUY branch
BuyPosition(p, t) ==
    LET newTotalShares == RAdd(p.shares, t.shares)
        newTotalInvested == RAdd(p.invested, t.total)
    IN  [p EXCEPT
            !.avgEntry = IF RGt0(newTotalShares)
                         THEN RDiv(newTotalInvested, newTotalShares)
                         ELSE Zero,
            !.shares = newTotalShares,
            !.invested = newTotalInvested]

\* a faulty variant of SellPosition: the clamp tests shares < 0 instead of shares <= 0
SellPositionStrictClamp(p, t) ==
    LET soldValue == RMul(t.shares, p.avgEntry)
        shares == RSub(p.shares, t.shares)
        invested == RSub(p.invested, soldValue)
    IN  IF RLt0(shares)
        THEN [p EXCEPT !.shares = Zero, !.avgEntry = Zero, !.invested = Zero]
        ELSE [p EXCEPT !.shares = shares, !.invested = invested]

\* a faulty variant of SellPosition: the cost basis is reduced by the proceeds of
\* the sale
SellPositionAtSalePrice(p, t) ==
    LET soldValue == t.total
        shares == RSub(p.shares, t.shares)
        invested == RSub(p.invested, soldValue)
    IN  IF RLe0(shares)
        THEN [p EXCEPT !.shares = Zero, !.avgEntry = Zero, !.invested = Zero]
        ELSE [p EXCEPT !.shares = shares, !.invested = invested]

\* the SELL branch, with its clamp to a flat position
SellPosition(p, t) ==
    LET soldValue == RMul(t.shares, p.avgEntry)
        shares == RSub(p.shares, t.shares)
        invested == RSub(p.invested, soldValue)
    IN  IF RLe0(shares)
        THEN [p EXCEPT !.shares = Zero, !.avgEntry = Zero, !.invested = Zero]
        ELSE [p EXCEPT !.shares = shares, !.invested = invested]

\* the if / else if on t.action: any other action leaves the position as is
UpdatePosition(p, t) ==
    IF t.action = "BUY" THEN BuyPosition(p, t)
    ELSE IF t.action = "SELL" THEN SellPosition(p, t)
    ELSE p

IsOpen(p) == RGt0(p.shares)

\* a faulty variant of ApplyTransaction: a position that the record closes is dropped
\* from the portfolio
ApplyTransactionDropClosed(pf, t) ==
    LET found == FindPosition(pf, t.etf)
        pf1 == IF found = 0 THEN Append(pf, NewPosition(t.etf)) ELSE pf
        i == IF found = 0 THEN Len(pf1) ELSE found
    IN  SelectSeq([pf1 EXCEPT ![i] = UpdatePosition(pf1[i], t)], IsOpen)

\* the body of transactions.forEach: find or create the position of t.etf,
\* then update it in place
ApplyTransaction(pf, t) ==
    LET found == FindPosition(pf, t.etf)
        pf1 == IF found = 0 THEN Append(pf, NewPosition(t.etf)) ELSE pf
        i == IF found = 0 THEN Len(pf1) ELSE found
    IN  [pf1 EXCEPT ![i] = UpdatePosition(pf1[i], t)]

RECURSIVE ReplayFrom(_, _)
ReplayFrom(pf, txs) ==
    IF txs = <<>> THEN pf
    ELSE ReplayFrom(ApplyTransaction(pf, Head(txs)), Tail(txs))

\* a faulty variant of ResetPortfolio: the positions of the previous run are kept
ResetPortfolioKeep(old) == old

\* portfolio = []: whatever the positions were, the replay starts from none
ResetPortfolio(old) == <<>>

\* a faulty variant of ForEachOrder: the records are visited by date, latest first
ForEachOrderByDate(txs) == sortedTransactions(txs)

\* transactions.forEach visits the records in index order
ForEachOrder(txs) == txs

\* portfolio = []; transactions.forEach(...): the positions of a ledger
recalculatePortfolioFromTransactions(txs) ==
    ReplayFrom(ResetPortfolio(<<>>), ForEachOrder(txs))

(***************************************************************************)
(* Storage.  A stored value is a JSON text or absent; JSON.stringify of a  *)
(* ledger keeps every field (all are finite numbers or strings), and       *)
(* JSON.parse gives back a fresh array.                                    *)
(***************************************************************************)
JSONstringify(txs) == [json |-> txs]
JSONparse(text) == text.json
NoValue == [present |-> FALSE, text |-> JSONstringify(<<>>)]
Stored(text) == [present |-> TRUE, text |-> text]

\* what a resolved window.storage.set can report
SaveOutcomes == {"stored", "falsy", "threw"}

\* the key in cloud storage after window.storage.set settles
CloudAfterSet(old, payload, outcome) ==
    IF outcome = "stored" THEN Stored(payload) ELSE old

\* the localStorage backup after saveTransactionsToCloud resumes: written
\* from the ledger of that moment when the result is truthy or the call threw
LocalAfterSet(old, txs, outcome) ==
    IF outcome \in {"stored", "threw"} THEN Stored(JSONstringify(txs)) ELSE old

(***************************************************************************)
(* deleteTransaction's lookup of the clicked row in the ledger.            *)
(***************************************************************************)
\* the findIndex callback of deleteTransaction: action and total are not
\* compared
SameRecord(t, d) ==
    /\ t.date = d.date
    /\ t.etf = d.etf
    /\ t.shares = d.shares
    /\ t.price = d.price

\* transactions.findIndex(...): the 0-based index of the first match, or -1
actualIndex(txs, d) ==
    IF \E i \in 1..Len(txs) : SameRecord(txs[i], d)
    THEN (CHOOSE i \in 1..Len(txs) :
            /\ SameRecord(txs[i], d)
            /\ \A j \in 1..(i - 1) : ~SameRecord(txs[j], d)) - 1
    ELSE -1

\* transactions.splice(start, 1): a negative start counts from the end
Splice(txs, start) ==
    LET from == IF start < 0
                THEN (IF Len(txs) + start < 0 THEN 0 ELSE Len(txs) + start)
                ELSE start
    IN  IF from >= Len(txs) THEN txs
        ELSE SubSeq(txs, 1, from) \o SubSeq(txs, from + 2, Len(txs))

(***************************************************************************)
(* Inputs of the handlers.                                                 *)
(***************************************************************************)
\* what the user types into the transaction form while saves may overlap
FormDates == {20250201}
FormETFs == {"soxx"}
FormActions == {"BUY", "SELL"}
FormShares == {1}
FormPrices == {1}

\* what the user may type when nothing overlaps (no cloud storage): the
\* fields are free text and numbers, nothing in addTransaction checks them
AnyDates == {20250201}
AnyETFs == {"soxx", "VWO", ""}
AnyActions == {"BUY", "SELL", "HOLD"}
AnyShares == {-1, 0, 1}
AnyPrices == {-1, 1}

\* String.prototype.toUpperCase on the typed symbol
toUpperCase(s) == IF s = "soxx" THEN "SOXX" ELSE s

\* the object literal addTransaction builds from the form: total is
\* shares * price
FormTransaction(date, etf, action, shares, price) ==
    Tx(date, toUpperCase(etf), action, Num(shares), Num(price),
       RMul(Num(shares), Num(price)))

\* the files offered to importPortfolioData: one that is not a backup, an
\* empty backup, and a backup whose total includes a fee
ImportFiles ==
    { [valid |-> FALSE, transactions |-> <<>>],
      [valid |-> TRUE, transactions |-> <<>>],
      [valid |-> TRUE,
       transactions |-> <<Tx(20240301, "SOXX", "BUY", Num(2), Num(1), Num(3))>>] }

(***************************************************************************)
(* Prices.  currentPrices is an object keyed by symbol: a function whose   *)
(* domain is the symbols that have an entry.                               *)
(***************************************************************************)
NoPrices == [etf \in {} |-> Zero]

\* the literal loadCachedPrices falls back to
FallbackPrices ==
    [etf \in {"SOXX", "IWM", "ARKK", "VWO", "INDA", "AIA", "SCHD", "HYG", "IBIT",
              "IAU", "SLV", "VTI"} |->
        CASE etf = "SOXX" -> Dec(34851)
          [] etf = "IWM" -> Dec(26502)
          [] etf = "ARKK" -> Dec(7041)
          [] etf = "VWO" -> Dec(5726)
          [] etf = "INDA" -> Dec(5337)
          [] etf = "AIA" -> Dec(10977)
          [] etf = "SCHD" -> Dec(3147)
          [] etf = "HYG" -> Dec(8049)
          [] etf = "IBIT" -> Dec(3968)
          [] etf = "IAU" -> Dec(9324)
          [] etf = "SLV" -> Dec(7019)
          [] OTHER -> Dec(34096)]

\* a number in a boolean context: 0 is falsy, every other number is truthy
Truthy(q) == q[1] # 0

\* a faulty variant of CurrentPrice: the cost basis is preferred to the price map
CurrentPriceCostFirst(prices, p) ==
    IF Truthy(p.avgEntry) THEN p.avgEntry
    ELSE IF p.etf \in DOMAIN prices /\ Truthy(prices[p.etf]) THEN prices[p.etf]
    ELSE Zero

\* currentPrices[position.etf] || position.avgEntry || 0
CurrentPrice(prices, p) ==
    IF p.etf \in DOMAIN prices /\ Truthy(prices[p.etf]) THEN prices[p.etf]
    ELSE IF Truthy(p.avgEntry) THEN p.avgEntry
    ELSE Zero

\* a faulty variant of ActivePositions: no filter
ActivePositionsAll(pf) == pf

\* portfolio.filter(p => p.shares > 0)
ActivePositions(pf) == SelectSeq(pf, IsOpen)

\* .map(p => p.etf) of the active positions: the symbols of a quote request
ActiveETFs(pf) ==
    [i \in 1..Len(ActivePositions(pf)) |-> ActivePositions(pf)[i].etf]

\* the rows renderPositions and renderStrategy draw: one per active
\* position, with the price it is valued at
Rows(pf, prices) ==
    [i \in 1..Len(ActivePositions(pf)) |->
        [etf |-> ActivePositions(pf)[i].etf,
         currentPrice |-> CurrentPrice(prices, ActivePositions(pf)[i])]]

\* the count renderDashboard writes into numPositions
CountActive(pf) == Len(ActivePositions(pf))

RECURSIVE TotalValue(_, _)
\* totalValue of calculateMetrics: every position's shares times its price
TotalValue(pf, prices) ==
    IF pf = <<>> THEN Zero
    ELSE RAdd(RMul(Head(pf).shares, CurrentPrice(prices, Head(pf))),
              TotalValue(Tail(pf), prices))

\* a quote of a response: regularMarketPrice may be missing
Quote(symbol, present, price) ==
    [symbol |-> symbol, present |-> present, regularMarketPrice |-> price]

\* quote.regularMarketPrice || 0
NewPrice(quote) ==
    IF quote.present /\ Truthy(quote.regularMarketPrice)
    THEN quote.regularMarketPrice ELSE Zero

\* a faulty variant of Accepted: any price that is there is taken
AcceptedAny(quote) == quote.present

\* if (newPrice > 0)
Accepted(quote) == RGt0(NewPrice(quote))

\* currentPrices[quote.symbol] = newPrice
SetPrice(prices, symbol, price) ==
    [etf \in DOMAIN prices \cup {symbol} |->
        IF etf = symbol THEN price ELSE prices[etf]]

RECURSIVE UpdatePrices(_, _)
\* data.quoteResponse.result.forEach(...)
UpdatePrices(prices, quotes) ==
    IF quotes = <<>> THEN prices
    ELSE UpdatePrices(
            IF Accepted(Head(quotes))
            THEN SetPrice(prices, Head(quotes).symbol, NewPrice(Head(quotes)))
            ELSE prices,
            Tail(quotes))

\* pricesUpdated after the forEach
PricesUpdated(quotes) == \E i \in 1..Len(quotes) : Accepted(quotes[i])

\* what a quote request can end in: fetch rejects, the response is not OK,
\* the body has no quoteResponse.result, or it has one
NetworkError == [kind |-> "network error", result |-> <<>>]
HttpError == [kind |-> "http error", result |-> <<>>]
NoResult == [kind |-> "no result", result |-> <<>>]
QuoteResult(quotes) == [kind |-> "result", result |-> quotes]

\* the catch block of fetchCurrentPrices is entered
FetchFailed(response) == response.kind \in {"network error", "http error"}

\* the if (pricesUpdated) block of fetchCurrentPrices is entered
FetchUpdated(response) == response.kind = "result" /\ PricesUpdated(response.result)

\* currentPrices after a quote request has ended
PricesAfterFetch(prices, response) ==
    IF response.kind = "result" THEN UpdatePrices(prices, response.result)
    ELSE prices

\* lastPriceUpdate after a quote request has ended
DateAfterFetch(date, response) ==
    IF FetchUpdated(response) THEN "fetch time"
    ELSE IF FetchFailed(response) /\ date = "null" THEN "failure time"
    ELSE date

\* the value savePricesToCloud stores
PriceData(prices, date) == [prices |-> prices, timestamp |-> date]
NoCache == [present |-> FALSE, data |-> PriceData(NoPrices, "null")]
Cached(data) == [present |-> TRUE, data |-> data]

VARIABLES
    cloudStorageAvailable,  \* typeof window.storage !== 'undefined'
    transactions,           \* the ledger
    portfolio,              \* the positions
    table,                  \* the rows renderTransactions drew last
    appPc,                  \* where initializeApp stands
    inflight,               \* handlers awaiting window.storage.set
    cloud,                  \* cloud storage, key etf_transactions
    localBackup,            \* localStorage, key etf_transactions_local_backup
    replayIdx,              \* records the forEach of a stepwise replay has done
    lastReplay,             \* what the previous stepwise replay yielded
    seed,                   \* the array initialTransactions, and who shares it
    currentPrices,          \* the price map
    lastPriceUpdate,        \* null, or what set the date
    pricesCache,            \* cloud storage, key etf_current_prices
    timerFetch,             \* a fetchCurrentPrices(true) awaiting its response
    symbols,                \* the symbols of the quote request sent last
    positionsBody,          \* the rows renderPositions drew last
    strategyBody,           \* the rows renderStrategy drew last
    numPositions,           \* the count renderDashboard wrote last
    totalValue,             \* the total value renderDashboard wrote last
    localPortfolio,         \* part_000: localStorage, key etf_portfolio
    localTransactions       \* part_000: localStorage, key etf_transactions

replayVars == <<replayIdx, lastReplay>>
quoteVars == <<currentPrices, lastPriceUpdate, pricesCache, timerFetch, symbols>>
viewVars == <<positionsBody, strategyBody, numPositions, totalValue>>

patchVars == <<localPortfolio, localTransactions>>

vars == <<cloudStorageAvailable, transactions, portfolio, table, appPc,
          inflight, cloud, localBackup, seed, replayVars, quoteVars, viewVars,
          patchVars>>

\* the seeded ledger: the first SeedLen records of initialTransactions
SeedLedger == SubSeq(initialTransactions, 1, SeedLen)

\* the array initialTransactions as the script creates it
FreshSeed == [array |-> SeedLedger, shared |-> FALSE]

\* a faulty variant of SeedShared: transactions = initialTransactions, one array
\* under two names
SeedSharedAssigned(array) == TRUE

\* [...initialTransactions] builds a new array: the ledger does not share
\* the seed array
SeedShared(array) == FALSE

\* the seed array after a handler has changed the ledger to txs: push and
\* splice change the array in place, an import binds transactions to a new
\* array
SeedAfter(s, handler, txs) ==
    IF handler = "import" THEN [s EXCEPT !.shared = FALSE]
    ELSE IF s.shared THEN [s EXCEPT !.array = txs]
    ELSE s

\* the previous stepwise replay: none yet
NoReplay == [done |-> FALSE, portfolio |-> <<>>]

(***************************************************************************)
(* The page: module state after the script has run and initializeApp has   *)
(* reached its first await.                                                *)
(***************************************************************************)
Init ==
    /\ cloudStorageAvailable \in BOOLEAN
    /\ transactions = <<>>
    /\ portfolio = <<>>
    /\ table = <<>>
    /\ appPc = "loading"
    /\ inflight = <<>>
    /\ cloud = NoValue
    /\ localBackup = NoValue
    /\ seed = FreshSeed
    /\ replayIdx = 0
    /\ lastReplay = NoReplay
    /\ currentPrices = NoPrices
    /\ lastPriceUpdate = "null"
    /\ pricesCache = NoCache
    /\ timerFetch = 0
    /\ symbols = <<>>
    /\ positionsBody = <<>>
    /\ strategyBody = <<>>
    /\ numPositions = 0
    /\ totalValue = Zero
    /\ localPortfolio = NoValue
    /\ localTransactions = NoValue

\* a faulty variant of LedgerAtResume: the handler replays the ledger it saved, not
\* the ledger of the moment it resumes
LedgerAtResumeSnapshot(current, saved) == saved

\* recalculatePortfolioFromTransactions after the await reads the global
\* transactions, whatever was saved
LedgerAtResume(current, saved) == current

\* renderDashboard (with renderPositions) and renderStrategy on positions pf
RenderDashboardAndStrategy(pf) ==
    /\ positionsBody' = Rows(pf, currentPrices)
    /\ strategyBody' = Rows(pf, currentPrices)
    /\ numPositions' = CountActive(pf)
    /\ totalValue' = TotalValue(pf, currentPrices)

\* initializeApp from loadTransactionsFromCloud's return to the next await
InitializeAppLoaded(outcome) ==
    /\ appPc = "loading"
    /\ outcome \in (IF ~cloudStorageAvailable THEN {"local"}
                    ELSE IF cloud.present THEN {"value", "threw"}
                    ELSE {"none", "threw"})
    /\ LET fromCloud == outcome = "value"
           local1 == IF fromCloud
                     THEN Stored(JSONstringify(JSONparse(cloud.text)))
                     ELSE localBackup
           hasSaved == fromCloud \/ localBackup.present
           savedTransactions == IF fromCloud THEN JSONparse(cloud.text)
                                ELSE JSONparse(localBackup.text)
       IN  IF hasSaved /\ Len(savedTransactions) > 0
           THEN /\ transactions' = savedTransactions
                /\ portfolio' = recalculatePortfolioFromTransactions(savedTransactions)
                /\ localBackup' = local1
                /\ appPc' = "prices"
                /\ seed' = seed
           ELSE /\ transactions' = seed.array
                /\ seed' = [seed EXCEPT !.shared = SeedShared(seed.array)]
                /\ IF cloudStorageAvailable
                   THEN /\ portfolio' = portfolio
                        /\ localBackup' = local1
                        /\ appPc' = "seeding"
                   ELSE /\ portfolio' = recalculatePortfolioFromTransactions(seed.array)
                        /\ localBackup' = Stored(JSONstringify(seed.array))
                        /\ appPc' = "prices"
    /\ UNCHANGED <<cloudStorageAvailable, table, inflight, cloud, replayVars, patchVars,
                   quoteVars, viewVars>>

\* initializeApp from the seeding save's return to the next await
InitializeAppSeeded(outcome) ==
    /\ appPc = "seeding"
    /\ outcome \in SaveOutcomes
    /\ cloud' = CloudAfterSet(cloud, JSONstringify(transactions), outcome)
    /\ localBackup' = LocalAfterSet(localBackup, transactions, outcome)
    /\ portfolio' = recalculatePortfolioFromTransactions(transactions)
    /\ appPc' = "prices"
    /\ UNCHANGED <<cloudStorageAvailable, transactions, table, inflight, seed,
                   replayVars, patchVars, quoteVars, viewVars>>

\* what loadPricesFromCloud can return: the cached value, or null because
\* there is none, the read threw, or there is no cloud storage
CacheReads ==
    IF cloudStorageAvailable /\ pricesCache.present THEN {"value", "threw"}
    ELSE {"none"}

\* initializeApp from recalculatePortfolioFromTransactions through
\* loadCachedPrices and the three renders to the call of fetchCurrentPrices,
\* which returns at once when no position is active (initializeApp then
\* runs to its end) and otherwise sends the quote request and waits
InitializeAppRendered(read) ==
    /\ appPc = "prices"
    /\ read \in CacheReads
    /\ currentPrices' = IF read = "value" THEN pricesCache.data.prices
                        ELSE FallbackPrices
    /\ lastPriceUpdate' = IF read = "value" THEN pricesCache.data.timestamp
                          ELSE lastPriceUpdate
    /\ positionsBody' = Rows(portfolio, currentPrices')
    /\ strategyBody' = Rows(portfolio, currentPrices')
    /\ numPositions' = CountActive(portfolio)
    /\ totalValue' = TotalValue(portfolio, currentPrices')
    /\ table' = sortedTransactions(transactions)
    /\ IF ActiveETFs(portfolio) = <<>>
       THEN appPc' = "ready" /\ symbols' = symbols
       ELSE appPc' = "fetching" /\ symbols' = ActiveETFs(portfolio)
    /\ UNCHANGED <<cloudStorageAvailable, transactions, portfolio, inflight,
                   cloud, localBackup, seed, replayVars, patchVars, pricesCache, timerFetch>>

\* what window.storage.set of the price cache can end in
CacheOutcomes == {"stored", "failed"}

\* fetchCurrentPrices from the end of its quote request to its return:
\* the prices taken from the response, and when one was taken the date, the
\* price cache (with cloud storage) and renderDashboard
FetchCurrentPricesEnds(response, cacheOutcome) ==
    /\ currentPrices' = PricesAfterFetch(currentPrices, response)
    /\ lastPriceUpdate' = DateAfterFetch(lastPriceUpdate, response)
    /\ IF FetchUpdated(response)
       THEN /\ pricesCache' =
                    IF cloudStorageAvailable /\ cacheOutcome = "stored"
                    THEN Cached(PriceData(currentPrices', lastPriceUpdate'))
                    ELSE pricesCache
            /\ positionsBody' = Rows(portfolio, currentPrices')
            /\ numPositions' = CountActive(portfolio)
            /\ totalValue' = TotalValue(portfolio, currentPrices')
       ELSE UNCHANGED <<pricesCache, positionsBody, numPositions, totalValue>>
    /\ UNCHANGED <<strategyBody, symbols>>

\* initializeApp from fetchCurrentPrices' return to its end:
\* setupAutomaticUpdates starts the timer, setupEventListeners installs the
\* form, refresh, export and import handlers
InitializeAppReady(response, cacheOutcome) ==
    /\ appPc = "fetching"
    /\ FetchCurrentPricesEnds(response, cacheOutcome)
    /\ appPc' = "ready"
    /\ UNCHANGED <<cloudStorageAvailable, transactions, portfolio, table,
                   inflight, cloud, localBackup, seed, replayVars, patchVars, timerFetch>>

\* the interval timer (or the page becoming visible) calls
\* fetchCurrentPrices(true), up to its await of the quote request; with no
\* active position it returns at once
TimerFires ==
    /\ appPc = "ready"
    /\ timerFetch < MaxTimerFetch
    /\ IF ActiveETFs(portfolio) = <<>>
       THEN UNCHANGED vars
       ELSE /\ timerFetch' = timerFetch + 1
            /\ symbols' = ActiveETFs(portfolio)
            /\ UNCHANGED <<cloudStorageAvailable, transactions, portfolio, table,
                           appPc, inflight, cloud, localBackup, seed, replayVars, patchVars,
                           currentPrices, lastPriceUpdate, pricesCache, viewVars>>

\* the quote request of a timer's fetchCurrentPrices ends
TimerFetchEnds(response, cacheOutcome) ==
    /\ timerFetch > 0
    /\ FetchCurrentPricesEnds(response, cacheOutcome)
    /\ timerFetch' = timerFetch - 1
    /\ UNCHANGED <<cloudStorageAvailable, transactions, portfolio, table, appPc,
                   inflight, cloud, localBackup, seed, replayVars, patchVars>>

\* a handler that has changed the ledger to txs calls saveTransactionsToCloud:
\* without cloud storage it writes the backup and runs on to its renders;
\* with it, it waits for window.storage.set
SaveAndContinue(handler, txs) ==
    /\ transactions' = txs
    /\ seed' = SeedAfter(seed, handler, txs)
    /\ IF cloudStorageAvailable
       THEN /\ Len(inflight) < MaxInFlight
            /\ inflight' = Append(inflight,
                    [handler |-> handler, payload |-> JSONstringify(txs)])
            /\ UNCHANGED <<portfolio, table, localBackup, viewVars>>
       ELSE /\ localBackup' = Stored(JSONstringify(txs))
            /\ portfolio' = recalculatePortfolioFromTransactions(
                                LedgerAtResume(txs, txs))
            /\ RenderDashboardAndStrategy(portfolio')
            /\ table' = sortedTransactions(txs)
            /\ UNCHANGED inflight
    /\ UNCHANGED <<cloudStorageAvailable, appPc, cloud, replayVars, patchVars, quoteVars>>

\* addTransaction up to its await
AddTransaction(date, etf, action, shares, price) ==
    /\ appPc = "ready"
    /\ Len(transactions) < MaxLedger
    /\ SaveAndContinue("add",
            Append(transactions, FormTransaction(date, etf, action, shares, price)))

\* deleteTransaction(index), confirmed, up to its await; index is the row
\* of the drawn table whose button was clicked
DeleteTransaction(index) ==
    /\ appPc \in {"fetching", "ready"}
    /\ index \in 0..(Len(table) - 1)
    /\ LET sorted == sortedTransactions(transactions)
       IN  /\ index < Len(sorted)
           /\ SaveAndContinue("delete",
                   Splice(transactions, actualIndex(transactions, sorted[index + 1])))

\* reader.onload of importPortfolioData, confirmed, up to its await; a file
\* that is no backup only raises the error notification
ImportPortfolioData(file) ==
    /\ appPc = "ready"
    /\ IF file.valid
       THEN SaveAndContinue("import", file.transactions)
       ELSE UNCHANGED vars

\* window.storage.set of the i-th waiting handler settles: the rest of
\* saveTransactionsToCloud, then the handler's recalculation and renders
SaveSettled(i, outcome) ==
    /\ i \in 1..Len(inflight)
    /\ outcome \in SaveOutcomes
    /\ cloud' = CloudAfterSet(cloud, inflight[i].payload, outcome)
    /\ localBackup' = LocalAfterSet(localBackup, transactions, outcome)
    /\ portfolio' = recalculatePortfolioFromTransactions(
                        LedgerAtResume(transactions, JSONparse(inflight[i].payload)))
    /\ RenderDashboardAndStrategy(portfolio')
    /\ table' = sortedTransactions(transactions)
    /\ inflight' = SubSeq(inflight, 1, i - 1) \o SubSeq(inflight, i + 1, Len(inflight))
    /\ UNCHANGED <<cloudStorageAvailable, transactions, appPc, seed, replayVars, patchVars,
                   quoteVars>>

\* the page is loaded again: the script's state starts over, the stores stay
Reload ==
    /\ transactions' = <<>>
    /\ portfolio' = <<>>
    /\ table' = <<>>
    /\ inflight' = <<>>
    /\ appPc' = "loading"
    /\ seed' = FreshSeed
    /\ currentPrices' = NoPrices
    /\ lastPriceUpdate' = "null"
    /\ timerFetch' = 0
    /\ symbols' = <<>>
    /\ positionsBody' = <<>>
    /\ strategyBody' = <<>>
    /\ numPositions' = 0
    /\ totalValue' = Zero
    /\ UNCHANGED <<cloudStorageAvailable, cloud, localBackup, replayVars, patchVars, pricesCache>>

\* the form is submitted with fields from the given sets
SubmitForm(dates, etfs, actions, shares, prices) ==
    \E date \in dates, etf \in etfs, action \in actions, n \in shares, price \in prices :
        AddTransaction(date, etf, action, n, price)

ClickDelete == \E index \in 0..(MaxLedger - 1) : DeleteTransaction(index)

ChooseImportFile == \E file \in ImportFiles : ImportPortfolioData(file)

LoadReturns ==
    \E outcome \in {"local", "value", "none", "threw"} : InitializeAppLoaded(outcome)

SeedSaveReturns == \E outcome \in SaveOutcomes : InitializeAppSeeded(outcome)

CachedPricesLoaded == \E read \in {"value", "threw", "none"} : InitializeAppRendered(read)

\* the first quote request ends with one of the given responses
FirstFetchReturns(responses) ==
    \E response \in responses, cacheOutcome \in CacheOutcomes :
        InitializeAppReady(response, cacheOutcome)

\* a timer's quote request ends with one of the given responses
TimerFetchReturns(responses) ==
    \E response \in responses, cacheOutcome \in CacheOutcomes :
        TimerFetchEnds(response, cacheOutcome)

SaveReturns ==
    \E i \in 1..MaxInFlight, outcome \in SaveOutcomes : SaveSettled(i, outcome)

\* the quote source is out of reach
Offline == {NetworkError}

(***************************************************************************)
(* Spec: the page with or without cloud storage, saves overlapping, the    *)
(* quote source out of reach.                                              *)
(***************************************************************************)
Next ==
    \/ LoadReturns
    \/ SeedSaveReturns
    \/ CachedPricesLoaded
    \/ FirstFetchReturns(Offline)
    \/ SubmitForm(FormDates, FormETFs, FormActions, FormShares, FormPrices)
    \/ ClickDelete
    \/ ChooseImportFile
    \/ SaveReturns
    \/ Reload

Spec == Init /\ [][Next]_vars

(***************************************************************************)
(* SpecLocal: the page without cloud storage (window.storage undefined),   *)
(* where every handler runs to its end before the next event, with the     *)
(* wider form inputs.                                                      *)
(***************************************************************************)
InitLocal == Init /\ ~cloudStorageAvailable

NextLocal ==
    \/ LoadReturns
    \/ CachedPricesLoaded
    \/ FirstFetchReturns(Offline)
    \/ SubmitForm(AnyDates, AnyETFs, AnyActions, AnyShares, AnyPrices)
    \/ ClickDelete
    \/ ChooseImportFile
    \/ Reload

SpecLocal == InitLocal /\ [][NextLocal]_vars

(***************************************************************************)
(* SpecReplay: recalculatePortfolioFromTransactions alone, one record of   *)
(* the forEach per step, on every ledger of up to MaxReplay records, and   *)
(* run a second time on the same ledger.                                   *)
(***************************************************************************)
\* the records of the replayed ledgers: what addTransaction can have
\* appended (total is shares * price), and an imported record of an
\* earlier date whose total includes a fee
ReplayRecords ==
    {FormTransaction(20250201, "soxx", "BUY", n, p) : n \in {-1, 1, 2}, p \in {1, 2}}
    \cup {FormTransaction(20250201, "soxx", "SELL", n, 1) : n \in {-2, 1, 2}}
    \cup {FormTransaction(20250201, "VWO", "BUY", n, 1) : n \in {1, 2}}
    \cup {FormTransaction(20250201, "VWO", "SELL", 1, 1),
          FormTransaction(20250201, "soxx", "HOLD", 1, 1),
          FormTransaction(20250201, "soxx", "BUY", 1, -1),
          FormTransaction(20250201, "soxx", "BUY", 0, 1),
          FormTransaction(20250201, "", "BUY", 1, 1),
          Tx(20240301, "SOXX", "BUY", Num(2), Num(1), Num(3))}

Ledgers(records, n) == UNION {[1..k -> records] : k \in 0..n}

InitReplay ==
    /\ cloudStorageAvailable = FALSE
    /\ transactions \in Ledgers(ReplayRecords, MaxReplay)
    /\ portfolio = <<>>
    /\ table = <<>>
    /\ appPc = "ready"
    /\ inflight = <<>>
    /\ cloud = NoValue
    /\ localBackup = NoValue
    /\ seed = FreshSeed
    /\ replayIdx = 0
    /\ lastReplay = NoReplay
    /\ currentPrices = FallbackPrices
    /\ lastPriceUpdate = "failure time"
    /\ pricesCache = NoCache
    /\ timerFetch = 0
    /\ symbols = <<>>
    /\ positionsBody = <<>>
    /\ strategyBody = <<>>
    /\ numPositions = 0
    /\ totalValue = Zero
    /\ localPortfolio = NoValue
    /\ localTransactions = NoValue

\* one turn of transactions.forEach
ReplayStep ==
    /\ replayIdx < Len(transactions)
    /\ portfolio' = ApplyTransaction(portfolio, ForEachOrder(transactions)[replayIdx + 1])
    /\ replayIdx' = replayIdx + 1
    /\ UNCHANGED <<cloudStorageAvailable, transactions, table, appPc, inflight,
                   cloud, localBackup, seed, lastReplay, quoteVars, viewVars,
                   patchVars>>

\* recalculatePortfolioFromTransactions is called again on the same ledger:
\* its first statement, portfolio = [], before the forEach starts over
RecalculateAgain ==
    /\ replayIdx = Len(transactions)
    /\ ~lastReplay.done
    /\ lastReplay' = [done |-> TRUE, portfolio |-> portfolio]
    /\ portfolio' = ResetPortfolio(portfolio)
    /\ replayIdx' = 0
    /\ UNCHANGED <<cloudStorageAvailable, transactions, table, appPc, inflight,
                   cloud, localBackup, seed, quoteVars, viewVars,
                   patchVars>>

NextReplay ==
    \/ ReplayStep
    \/ RecalculateAgain

SpecReplay == InitReplay /\ [][NextReplay]_vars

(***************************************************************************)
(* SpecQuotes: the page with the quote source in reach: the first quote    *)
(* request and the timer's requests end in any of the responses below,     *)
(* while the form adds records of a symbol with a fallback price and of    *)
(* one without, with positive and negative shares.                         *)
(***************************************************************************)
\* the quotes of the responses: a price, no price, zero and a negative one
Quotes ==
    {Quote("SOXX", TRUE, Num(3)), Quote("SOXX", FALSE, Zero),
     Quote("SOXX", TRUE, Zero), Quote("SOXX", TRUE, Num(-1)),
     Quote("TLT", TRUE, Num(3)), Quote("TLT", FALSE, Zero)}

QuoteResponses ==
    {NetworkError, HttpError, NoResult}
    \cup {QuoteResult(<<q>>) : q \in Quotes}
    \cup {QuoteResult(<<q1, q2>>) : q1 \in Quotes, q2 \in Quotes}

QuoteETFs == {"soxx", "TLT"}
QuoteShares == {-1, 1}
QuotePrices == {2}

NextQuotes ==
    \/ LoadReturns
    \/ SeedSaveReturns
    \/ CachedPricesLoaded
    \/ FirstFetchReturns(QuoteResponses)
    \/ SubmitForm(FormDates, QuoteETFs, FormActions, QuoteShares, QuotePrices)
    \/ SaveReturns
    \/ TimerFires
    \/ TimerFetchReturns(QuoteResponses)
    \/ Reload

SpecQuotes == Init /\ [][NextQuotes]_vars

(***************************************************************************)
(* SpecStartup: initializeApp with every quote response, the delete        *)
(* buttons of the drawn table and page reloads, under the progress the     *)
(* event loop gives it.  The storage calls settle, so each continuation of *)
(* initializeApp that waits for one is run; the quote request is a fetch   *)
(* with no timeout, so nothing says that it settles.                       *)
(***************************************************************************)
NextStartup ==
    \/ LoadReturns
    \/ SeedSaveReturns
    \/ CachedPricesLoaded
    \/ FirstFetchReturns(QuoteResponses)
    \/ ClickDelete
    \/ SaveReturns
    \/ Reload

\* a step in which initializeApp resumes after a storage call: its await of
\* loadTransactionsFromCloud, of the seeding saveTransactionsToCloud or of
\* loadCachedPrices (the steps LoadReturns, SeedSaveReturns and
\* CachedPricesLoaded, told by where initializeApp stands)
StorageCallReturns ==
    \/ appPc = "loading" /\ appPc' \in {"seeding", "prices"}
    \/ appPc = "seeding" /\ appPc' = "prices"
    \/ appPc = "prices" /\ appPc' \in {"fetching", "ready"}

StorageSettles == WF_appPc(StorageCallReturns)

SpecStartup == Init /\ [][NextStartup]_vars /\ StorageSettles

(***************************************************************************)
(* SpecPatch: the local-storage version (src/unnamed/part_000), which      *)
(* keeps the positions in localStorage and patches them with each added    *)
(* record.  Its one division can have a zero divisor, so avgEntry is a     *)
(* rational, an infinity <<1, 0>> or <<-1, 0>>, or NaN <<0, 0>>.  Its      *)
(* renders and its quote request write the page and the price map only     *)
(* and are left out.                                                       *)
(***************************************************************************)
Infinity == <<1, 0>>
MinusInfinity == <<-1, 0>>
NaN == <<0, 0>>
Finite(a) == a[2] # 0
Sign(a) == IF a[1] > 0 THEN 1 ELSE IF a[1] < 0 THEN -1 ELSE 0

\* a + b on JavaScript numbers
XAdd(a, b) ==
    IF Finite(a) /\ Finite(b) THEN RAdd(a, b)
    ELSE IF a = NaN \/ b = NaN THEN NaN
    ELSE IF Finite(a) THEN b
    ELSE IF Finite(b) THEN a
    ELSE IF a = b THEN a
    ELSE NaN

\* a * b on JavaScript numbers
XMul(a, b) ==
    IF Finite(a) /\ Finite(b) THEN RMul(a, b)
    ELSE IF a = NaN \/ b = NaN \/ a = Zero \/ b = Zero THEN NaN
    ELSE <<Sign(a) * Sign(b), 0>>

\* a / b on JavaScript numbers (a zero divisor here is always +0)
XDiv(a, b) ==
    IF a = NaN \/ b = NaN THEN NaN
    ELSE IF Finite(a) /\ Finite(b)
         THEN (IF b # Zero THEN RDiv(a, b) ELSE <<Sign(a), 0>>)
    ELSE IF Finite(a) THEN Zero
    ELSE IF Finite(b) THEN <<Sign(a) * (IF b = Zero THEN 1 ELSE Sign(b)), 0>>
    ELSE NaN

Position(etf, shares, avgEntry, invested, reserved) ==
    [etf |-> etf, shares |-> shares, avgEntry |-> avgEntry,
     invested |-> invested, reserved |-> reserved]

\* const initialPortfolio of part_000
initialPortfolio ==
    << Position("SOXX", Dec(10714), Dec(28001), Num(30000), Num(40000)),
       Position("IWM", Dec(3004), Dec(24967), Num(7500), Num(35000)),
       Position("ARKK", Zero, Zero, Zero, Num(40000)),
       Position("VWO", Dec(41446), Dec(5411), Dec(2242526), Num(5000)),
       Position("INDA", Dec(14042), Dec(5341), Num(7500), Zero),
       Position("AIA", Dec(7835), Dec(9572), Num(7500), Zero),
       Position("SCHD", Dec(44964), Dec(2780), Num(12500), Zero),
       Position("HYG", Dec(12392), Dec(8070), Num(10000), Zero),
       Position("IBIT", Zero, Zero, Zero, Num(70000)) >>

\* const initialTransactions of part_000
localInitialTransactions ==
    << Tx(20240115, "SOXX", "BUY", Dec(10714), Dec(28000), Num(30000)),
       Tx(20240115, "IWM", "BUY", Dec(3004), Dec(24963), Num(7500)),
       Tx(20240115, "VWO", "BUY", Dec(13873), Dec(5406), Num(7500)),
       Tx(20240615, "VWO", "BUY", Dec(27573), Dec(5413), Dec(1492526)),
       Tx(20240115, "INDA", "BUY", Dec(14042), Dec(5341), Num(7500)),
       Tx(20240115, "AIA", "BUY", Dec(7835), Dec(9572), Num(7500)),
       Tx(20240115, "SCHD", "BUY", Dec(44964), Dec(2780), Num(12500)),
       Tx(20240115, "HYG", "BUY", Dec(12392), Dec(8070), Num(10000)) >>

\* the BUY branch of updatePortfolioFromTransaction
PatchBuy(p, tx) ==
    LET totalCost == XAdd(XMul(p.shares, p.avgEntry), tx.total)
        totalShares == RAdd(p.shares, tx.shares)
    IN  [p EXCEPT !.avgEntry = XDiv(totalCost, totalShares),
                  !.shares = totalShares,
                  !.invested = RAdd(p.invested, tx.total)]

\* the SELL branch of updatePortfolioFromTransaction
PatchSell(p, tx) ==
    [p EXCEPT !.shares = RSub(p.shares, tx.shares),
              !.invested = RSub(p.invested, tx.total)]

\* updatePortfolioFromTransaction without its savePortfolio: the positions
\* after the record's position has been found or created and patched
updatePortfolioFromTransaction(pf, tx) ==
    LET found == FindPosition(pf, tx.etf)
        pf1 == IF found = 0
               THEN Append(pf, Position(tx.etf, Zero, Zero, Zero, Zero))
               ELSE pf
        i == IF found = 0 THEN Len(pf1) ELSE found
    IN  [pf1 EXCEPT ![i] = IF tx.action = "BUY" THEN PatchBuy(pf1[i], tx)
                           ELSE IF tx.action = "SELL" THEN PatchSell(pf1[i], tx)
                           ELSE pf1[i]]

\* JSON.stringify of the positions writes an avgEntry that is not finite as
\* null, which JSON.parse gives back and arithmetic reads as 0
PortfolioJSON(pf) ==
    JSONstringify([i \in 1..Len(pf) |->
        IF Finite(pf[i].avgEntry) THEN pf[i] ELSE [pf[i] EXCEPT !.avgEntry = Zero]])

\* what the user types into the form of part_000: the total is a field of
\* its own
PatchETFs == {"AIA", "ARKK", "TLT"}
PatchShares == {1, 2}
PatchTotals == {2, 3}

\* the object literal addTransaction of part_000 builds from the form
PatchTransaction(date, etf, action, shares, price, total) ==
    Tx(date, toUpperCase(etf), action, Num(shares), Num(price), Num(total))

\* initializeApp of part_000: positions and ledger are read from
\* localStorage, or copied from the initial data and saved
LocalInitializeApp ==
    /\ appPc = "loading"
    /\ IF localPortfolio.present
       THEN /\ portfolio' = JSONparse(localPortfolio.text)
            /\ localPortfolio' = localPortfolio
       ELSE /\ portfolio' = initialPortfolio
            /\ localPortfolio' = Stored(PortfolioJSON(initialPortfolio))
    /\ IF localTransactions.present
       THEN /\ transactions' = JSONparse(localTransactions.text)
            /\ localTransactions' = localTransactions
       ELSE /\ transactions' = localInitialTransactions
            /\ localTransactions' = Stored(JSONstringify(localInitialTransactions))
    /\ appPc' = "ready"
    /\ UNCHANGED <<cloudStorageAvailable, table, inflight, cloud, localBackup,
                   seed, replayVars, quoteVars, viewVars>>

\* addTransaction of part_000: push, saveTransactions,
\* updatePortfolioFromTransaction with its savePortfolio
LocalAddTransaction(date, etf, action, shares, price, total) ==
    /\ appPc = "ready"
    /\ Len(transactions) < Len(localInitialTransactions) + MaxPatch
    /\ LET tx == PatchTransaction(date, etf, action, shares, price, total)
       IN  /\ transactions' = Append(transactions, tx)
           /\ localTransactions' = Stored(JSONstringify(transactions'))
           /\ portfolio' = updatePortfolioFromTransaction(portfolio, tx)
           /\ localPortfolio' = Stored(PortfolioJSON(portfolio'))
    /\ UNCHANGED <<cloudStorageAvailable, table, appPc, inflight, cloud,
                   localBackup, seed, replayVars, quoteVars, viewVars>>

LocalSubmitForm ==
    \E date \in FormDates, etf \in PatchETFs, action \in FormActions,
       shares \in PatchShares, price \in FormPrices, total \in PatchTotals :
        LocalAddTransaction(date, etf, action, shares, price, total)

NextPatch ==
    \/ LocalInitializeApp
    \/ LocalSubmitForm
    \/ Reload

SpecPatch == InitLocal /\ [][NextPatch]_vars

(***************************************************************************)
(* Properties.                                                             *)
(***************************************************************************)
\* the records the specification calls valid: shares > 0, price >= 0, a
\* symbol, and BUY or SELL
Valid(t) ==
    /\ RGt0(t.shares)
    /\ ~RLt0(t.price)
    /\ t.etf # ""
    /\ t.action \in {"BUY", "SELL"}

Flat(p) == p.shares = Zero /\ p.avgEntry = Zero /\ p.invested = Zero

\* the records the stepwise replay has processed
Done == SubSeq(transactions, 1, replayIdx)

RECURSIVE OfSymbol(_, _)
\* the records, or positions, of one symbol, in order
OfSymbol(s, etf) ==
    IF s = <<>> THEN <<>>
    ELSE IF Head(s).etf = etf THEN <<Head(s)>> \o OfSymbol(Tail(s), etf)
    ELSE OfSymbol(Tail(s), etf)

RECURSIVE FirstSeen(_, _)
\* the symbols of a ledger in the order of their first occurrence
FirstSeen(seen, txs) ==
    IF txs = <<>> THEN seen
    ELSE IF \E i \in 1..Len(seen) : seen[i] = Head(txs).etf
         THEN FirstSeen(seen, Tail(txs))
         ELSE FirstSeen(Append(seen, Head(txs).etf), Tail(txs))

\* the shares held of a symbol, 0 when it has no position
Held(pf, etf) ==
    IF OfSymbol(pf, etf) = <<>> THEN Zero ELSE OfSymbol(pf, etf)[1].shares

C2_AverageCost ==
    \A i \in 1..Len(portfolio) :
        RGt0(portfolio[i].shares)
            => RMul(portfolio[i].avgEntry, portfolio[i].shares) = portfolio[i].invested

\* C3 as claimed: every position with shares = 0 has avgEntry = 0 and
\* invested = 0.
C3_FlatWhenEmpty ==
    \A i \in 1..Len(portfolio) :
        portfolio[i].shares = Zero
            => (portfolio[i].avgEntry = Zero /\ portfolio[i].invested = Zero)

\* C4 as claimed: after any adds and deletes no position has negative
\* shares or negative invested.
C4_NeverNegative ==
    \A i \in 1..Len(portfolio) :
        ~RLt0(portfolio[i].shares) /\ ~RLt0(portfolio[i].invested)

\* C5: a step of the replay that processes a SELL of at least the shares
\* held of its symbol leaves that symbol's position with shares = 0,
\* avgEntry = 0 and invested = 0, whatever the record's price and total.
C5_FullCloseClamps ==
    [][(/\ replayIdx' = replayIdx + 1
        /\ transactions[replayIdx + 1].action = "SELL"
        /\ RGe(transactions[replayIdx + 1].shares,
               Held(portfolio, transactions[replayIdx + 1].etf)))
        => LET after == OfSymbol(portfolio', transactions[replayIdx + 1].etf)
           IN  Len(after) = 1 /\ Flat(after[1])]_vars

\* C5 witness: the record just replayed is a SELL of more than the positive
\* number of shares held before it (an oversell), and the replay went on.
C5_Witness ==
    /\ replayIdx >= 2
    /\ transactions[replayIdx].action = "SELL"
    /\ LET before == recalculatePortfolioFromTransactions(
                        SubSeq(transactions, 1, replayIdx - 1))
           held == Held(before, transactions[replayIdx].etf)
       IN  /\ RGt0(held)
           /\ RGt0(RSub(transactions[replayIdx].shares, held))
    /\ Flat(OfSymbol(portfolio, transactions[replayIdx].etf)[1])

\* a replay step changed no position: the positions are the same, or the
\* same followed by one new flat position
NoPositionChanged(before, after) ==
    \/ after = before
    \/ /\ Len(after) = Len(before) + 1
       /\ SubSeq(after, 1, Len(before)) = before
       /\ Flat(after[Len(after)])

\* C6 as claimed: a record that is not valid never changes a position: the
\* replay of the ledger up to and including it has the positions of the
\* replay up to it.
C6_InvalidRejected ==
    \A i \in 1..Len(transactions) :
        ~Valid(transactions[i])
            => NoPositionChanged(
                   recalculatePortfolioFromTransactions(SubSeq(transactions, 1, i - 1)),
                   recalculatePortfolioFromTransactions(SubSeq(transactions, 1, i)))

\* C7 as claimed: submitting the form with fields that make no valid
\* transaction leaves the ledger, the stored copies and the positions as
\* they were.
C7_InvalidSubmitIgnored ==
    [][\A date \in AnyDates, etf \in AnyETFs, action \in AnyActions,
          n \in AnyShares, price \in AnyPrices :
            (/\ ~Valid(FormTransaction(date, etf, action, n, price))
             /\ AddTransaction(date, etf, action, n, price))
                => UNCHANGED <<transactions, localBackup, cloud, portfolio>>]_vars

\* C8: for each symbol of the replayed records, its position in a ledger
\* that mixes several symbols is the position the replay of that symbol's
\* records alone gives.
C8_SymbolsIndependent ==
    \A k \in 1..replayIdx :
        LET etf == transactions[k].etf
        IN  OfSymbol(portfolio, etf)
                = OfSymbol(recalculatePortfolioFromTransactions(OfSymbol(Done, etf)), etf)

\* C8 witness: three records replayed, the second of another symbol than
\* the first and the third, and both symbols hold shares.
C8_Witness ==
    /\ replayIdx = 3
    /\ transactions[1].etf = transactions[3].etf
    /\ transactions[2].etf # transactions[1].etf
    /\ Len(portfolio) = 2
    /\ RGt0(portfolio[1].shares)
    /\ RGt0(portfolio[2].shares)
    /\ transactions[3].action = "SELL"

\* C9: the positions of a replay are one per symbol of the replayed
\* records, in the order the symbols first occur.
C9_OnePositionPerSymbol ==
    /\ Len(portfolio) = Len(FirstSeen(<<>>, Done))
    /\ \A i \in 1..Len(portfolio) : portfolio[i].etf = FirstSeen(<<>>, Done)[i]

\* C9 witness: three records of two symbols, the first symbol occurring
\* again after the second.
C9_Witness ==
    /\ replayIdx = 3
    /\ transactions[1].etf = transactions[3].etf
    /\ transactions[2].etf # transactions[1].etf
    /\ Len(portfolio) = 2

\* C10: every symbol of the replayed records has a position, also when it
\* has been sold in full.
C10_ClosedRetained ==
    \A k \in 1..replayIdx :
        \E i \in 1..Len(portfolio) : portfolio[i].etf = transactions[k].etf

\* C10 witness: a symbol bought and then sold in full is still in the
\* portfolio, with shares = 0.
C10_Witness ==
    /\ replayIdx = 2
    /\ transactions[1].action = "BUY"
    /\ RGt0(transactions[1].shares)
    /\ transactions[2].action = "SELL"
    /\ transactions[2].etf = transactions[1].etf
    /\ transactions[2].shares = transactions[1].shares
    /\ Len(portfolio) = 1
    /\ portfolio[1].etf = transactions[1].etf
    /\ portfolio[1].shares = Zero

\* C11: a second run of recalculatePortfolioFromTransactions on the same
\* ledger ends with the positions the first run ended with, whatever
\* positions the first run left behind.
C11_ReplayIdempotent ==
    (lastReplay.done /\ replayIdx = Len(transactions))
        => portfolio = lastReplay.portfolio

\* C11 witness: the second run has ended on a ledger of three records that
\* left two positions, one of them open.
C11_Witness ==
    /\ lastReplay.done
    /\ replayIdx = 3
    /\ Len(transactions) = 3
    /\ Len(lastReplay.portfolio) = 2
    /\ \E i \in 1..2 : RGt0(lastReplay.portfolio[i].shares)
    /\ Len(portfolio) = 2

\* the position of a symbol as the forEach body sees it: the one found, or
\* the flat one it creates
PositionOf(pf, etf) ==
    IF OfSymbol(pf, etf) = <<>>
    THEN [etf |-> etf, shares |-> Zero, avgEntry |-> Zero, invested |-> Zero,
          reserved |-> Zero]
    ELSE OfSymbol(pf, etf)[1]

\* the record a replay step is about to process
Current == transactions[replayIdx + 1]

RECURSIVE WithPrice(_, _)
\* a ledger with the price of every record replaced
WithPrice(txs, price) ==
    IF txs = <<>> THEN <<>>
    ELSE <<[Head(txs) EXCEPT !.price = price]>> \o WithPrice(Tail(txs), price)

\* C12: a step of the replay that processes a BUY adds the record's stored
\* total to invested and its shares to shares, whatever shares * price is;
\* and the positions are those of the same ledger with every price replaced.
C12_BuyUsesStoredTotal ==
    /\ [][(replayIdx' = replayIdx + 1 /\ Current.action = "BUY")
            => /\ PositionOf(portfolio', Current.etf).invested
                    = RAdd(PositionOf(portfolio, Current.etf).invested, Current.total)
               /\ PositionOf(portfolio', Current.etf).shares
                    = RAdd(PositionOf(portfolio, Current.etf).shares, Current.shares)]_vars
    /\ [](portfolio = ReplayFrom(<<>>, WithPrice(Done, Num(7))))

\* C12 witness: the record just replayed is a BUY whose total is not
\* shares * price, into a position that already held shares.
C12_Witness ==
    /\ replayIdx >= 2
    /\ transactions[replayIdx].action = "BUY"
    /\ transactions[replayIdx].total
            # RMul(transactions[replayIdx].shares, transactions[replayIdx].price)
    /\ LET before == recalculatePortfolioFromTransactions(
                        SubSeq(transactions, 1, replayIdx - 1))
           etf == transactions[replayIdx].etf
       IN  /\ RGt0(Held(before, etf))
           /\ PositionOf(portfolio, etf).invested
                = RAdd(PositionOf(before, etf).invested, transactions[replayIdx].total)

RECURSIVE WithSalePrice(_, _, _)
\* a ledger with the price and the total of every SELL record replaced
WithSalePrice(txs, price, total) ==
    IF txs = <<>> THEN <<>>
    ELSE <<IF Head(txs).action = "SELL"
           THEN [Head(txs) EXCEPT !.price = price, !.total = total]
           ELSE Head(txs)>> \o WithSalePrice(Tail(txs), price, total)

\* C13: a step of the replay that processes a SELL and leaves shares > 0
\* lowers invested by the record's shares times the avgEntry before the
\* sale and keeps avgEntry; and the positions are those of the same ledger
\* with the price and total of every SELL replaced.
C13_SellAtAverageCost ==
    /\ [][(/\ replayIdx' = replayIdx + 1
           /\ Current.action = "SELL"
           /\ RGt0(PositionOf(portfolio', Current.etf).shares))
            => /\ PositionOf(portfolio', Current.etf).invested
                    = RSub(PositionOf(portfolio, Current.etf).invested,
                           RMul(Current.shares, PositionOf(portfolio, Current.etf).avgEntry))
               /\ PositionOf(portfolio', Current.etf).avgEntry
                    = PositionOf(portfolio, Current.etf).avgEntry]_vars
    /\ [](portfolio = ReplayFrom(<<>>, WithSalePrice(Done, Num(7), Num(9))))

\* C13 witness: the record just replayed is a SELL of part of a position
\* whose avgEntry was not the sale price; shares are left and invested went
\* down by shares * avgEntry.
C13_Witness ==
    /\ replayIdx >= 2
    /\ transactions[replayIdx].action = "SELL"
    /\ RGt0(transactions[replayIdx].shares)
    /\ LET before == PositionOf(recalculatePortfolioFromTransactions(
                                    SubSeq(transactions, 1, replayIdx - 1)),
                                transactions[replayIdx].etf)
           after == PositionOf(portfolio, transactions[replayIdx].etf)
       IN  /\ before.avgEntry # transactions[replayIdx].price
           /\ RGt0(after.shares)
           /\ after.avgEntry = before.avgEntry
           /\ after.invested = RSub(before.invested,
                                    RMul(transactions[replayIdx].shares, before.avgEntry))

RECURSIVE WithDate(_, _)
\* a ledger with the date of every record replaced
WithDate(txs, date) ==
    IF txs = <<>> THEN <<>>
    ELSE <<[Head(txs) EXCEPT !.date = date]>> \o WithDate(Tail(txs), date)

\* C14: the positions of a replay are those of replaying the processed
\* records in their stored order with every date replaced by one date.
C14_DateIgnored ==
    portfolio = ReplayFrom(<<>>, WithDate(Done, 20000101))

\* C14 witness: a ledger of two records stored latest first has been
\* replayed, and replaying them earliest first gives other positions.
C14_Witness ==
    /\ Len(transactions) = 2
    /\ replayIdx = 2
    /\ transactions[1].date > transactions[2].date
    /\ portfolio # ReplayFrom(<<>>, <<transactions[2], transactions[1]>>)

\* a ledger without its k-th record
Without(txs, k) == SubSeq(txs, 1, k - 1) \o SubSeq(txs, k + 1, Len(txs))

\* C15 as claimed: a click on the delete button of a drawn row removes
\* exactly one record from the ledger, and that record is the one the row
\* shows; every other record stays.
C15_DeleteRemovesSelected ==
    [][\A index \in 0..(MaxLedger - 1) :
            DeleteTransaction(index)
                => \E k \in 1..Len(transactions) :
                        /\ transactions[k] = table[index + 1]
                        /\ transactions' = Without(transactions, k)]_vars

\* the seed ledger is in one of the two stores
SeedPersisted ==
    \/ localBackup = Stored(JSONstringify(SeedLedger))
    \/ cloud = Stored(JSONstringify(SeedLedger))

\* C16 as claimed: when loadTransactionsFromCloud returns nothing (no cloud
\* storage, no cloud value or a read error, and no local backup),
\* initializeApp makes the seed ledger the ledger; when its save has
\* returned the seed ledger is stored; and the array initialTransactions
\* keeps its records whatever is done to the ledger.
C16_SeedOnLoadFailure ==
    /\ [][\A outcome \in {"local", "none", "threw"} :
            (InitializeAppLoaded(outcome) /\ ~localBackup.present)
                => /\ transactions' = SeedLedger
                   /\ appPc' = "seeding" \/ SeedPersisted']_vars
    /\ [][\A outcome \in SaveOutcomes :
            InitializeAppSeeded(outcome) => SeedPersisted']_vars
    /\ [](seed.array = SeedLedger)

\* the price a position is valued at, as the claim words it: the price
\* map's entry for its symbol if there is one, otherwise its avgEntry
CachedOrCost(prices, p) ==
    IF p.etf \in DOMAIN prices THEN prices[p.etf] ELSE p.avgEntry

RECURSIVE ValueAt(_, _)
\* the shares of every position times the price it is valued at
ValueAt(pf, prices) ==
    IF pf = <<>> THEN Zero
    ELSE RAdd(RMul(Head(pf).shares, CachedOrCost(prices, Head(pf))),
              ValueAt(Tail(pf), prices))

\* every drawn row shows the cached-or-cost price of its symbol's position
PricesShown(rows, pf, prices) ==
    \A i \in 1..Len(rows) :
        rows[i].currentPrice = CachedOrCost(prices, PositionOf(pf, rows[i].etf))

\* a quote request that ended in response took the price of symbol etf
\* from a quote with a positive price
TakenFrom(response, etf, price) ==
    \E i \in 1..Len(response.result) :
        /\ response.result[i].symbol = etf
        /\ response.result[i].present
        /\ RGt0(response.result[i].regularMarketPrice)
        /\ response.result[i].regularMarketPrice = price

\* C17: a quote request that ends in a network error or a response that is
\* not OK leaves currentPrices as it was; an entry of currentPrices changes
\* only to the positive price of a quote for its symbol; and the dashboard's
\* total value, the positions table and (when it is drawn) the strategy
\* table value each position at the entry of currentPrices for its symbol
\* if there is one and at its avgEntry otherwise.
C17_QuoteFailureFallback ==
    /\ [][\A response \in {NetworkError, HttpError}, cacheOutcome \in CacheOutcomes :
            (\/ InitializeAppReady(response, cacheOutcome)
             \/ TimerFetchEnds(response, cacheOutcome))
                => currentPrices' = currentPrices]_vars
    /\ [][(currentPrices' # currentPrices /\ (appPc = "fetching" \/ timerFetch > 0))
            => \A response \in QuoteResponses, cacheOutcome \in CacheOutcomes :
                (\/ InitializeAppReady(response, cacheOutcome)
                 \/ TimerFetchEnds(response, cacheOutcome))
                    => \A etf \in DOMAIN currentPrices :
                        /\ etf \in DOMAIN currentPrices'
                        /\ \/ currentPrices'[etf] = currentPrices[etf]
                           \/ TakenFrom(response, etf, currentPrices'[etf])]_vars
    /\ [][strategyBody' # strategyBody
            => PricesShown(strategyBody', portfolio', currentPrices')]_vars
    /\ [](appPc \in {"fetching", "ready"}
            => /\ PricesShown(positionsBody, portfolio, currentPrices)
               /\ totalValue = ValueAt(portfolio, currentPrices))

\* C17 witness: a quote request has failed (the date says so), and the
\* positions table shows one position at a price fetched earlier and one,
\* whose symbol has no entry in currentPrices, at its avgEntry.
C17_Witness ==
    /\ appPc = "ready"
    /\ lastPriceUpdate = "failure time"
    /\ Len(positionsBody) = 2
    /\ positionsBody[1].etf = "SOXX"
    /\ positionsBody[1].currentPrice = FallbackPrices["SOXX"]
    /\ positionsBody[2].etf = "TLT"
    /\ "TLT" \notin DOMAIN currentPrices
    /\ positionsBody[2].currentPrice = Num(2)

\* the localStorage backup holds the JSON text of the ledger
BackupIsLedger == localBackup = Stored(JSONstringify(transactions))

\* C18 as claimed: when a call of saveTransactionsToCloud returns (the
\* seeding save of initializeApp or the save of an add, delete or import,
\* whatever window.storage.set reported; without cloud storage the call
\* returns within the step that changed the ledger), the localStorage backup
\* holds the JSON of the current ledger.
C18_DualPersistence ==
    /\ [][\A outcome \in SaveOutcomes :
            (\/ InitializeAppSeeded(outcome)
             \/ \E i \in 1..MaxInFlight : SaveSettled(i, outcome))
                => BackupIsLedger']_vars
    /\ [][(~cloudStorageAvailable /\ transactions' # transactions /\ appPc' # "loading")
            => BackupIsLedger']_vars

RECURSIVE OpenSymbols(_)
\* the symbols of the positions with shares > 0, in the portfolio's order
OpenSymbols(pf) ==
    IF pf = <<>> THEN <<>>
    ELSE IF Head(pf).shares[1] > 0 THEN <<Head(pf).etf>> \o OpenSymbols(Tail(pf))
    ELSE OpenSymbols(Tail(pf))

\* the symbols of drawn rows
RowSymbols(rows) == [i \in 1..Len(rows) |-> rows[i].etf]

\* C19: once the page has been drawn, the positions table and the strategy
\* table have one row for each position with shares > 0 and no other row,
\* the position count is their number, and every quote request that is sent
\* asks for exactly their symbols.
C19_ZeroPositionsHidden ==
    /\ [](appPc \in {"fetching", "ready"}
            => /\ RowSymbols(positionsBody) = OpenSymbols(portfolio)
               /\ RowSymbols(strategyBody) = OpenSymbols(portfolio)
               /\ numPositions = Len(OpenSymbols(portfolio)))
    /\ [][symbols' # symbols => symbols' = OpenSymbols(portfolio')]_vars

\* C19 witness: the portfolio has a position with shares > 0 and one with
\* shares = 0; one row is drawn in each table, the count is 1, and a timer's
\* quote request for the one open symbol is under way.
C19_Witness ==
    /\ appPc = "ready"
    /\ Len(portfolio) = 2
    /\ RGt0(portfolio[1].shares)
    /\ portfolio[2].shares = Zero
    /\ Len(positionsBody) = 1
    /\ Len(strategyBody) = 1
    /\ numPositions = 1
    /\ timerFetch = 1
    /\ symbols = <<portfolio[1].etf>>

\* C20: a step of the replay (a turn of its forEach, or its start) leaves
\* the ledger, currentPrices and lastPriceUpdate as they were, and every
\* position the replay yields has reserved = 0.
C20_ReplayHasNoSideEffect ==
    /\ [][replayIdx' # replayIdx
            => UNCHANGED <<transactions, currentPrices, lastPriceUpdate>>]_vars
    /\ [](\A i \in 1..Len(portfolio) : portfolio[i].reserved = Zero)

\* C20 witness: a ledger of three records has been replayed twice and left
\* two positions with reserved = 0, with prices and a date set before the
\* replay still in place.
C20_Witness ==
    /\ lastReplay.done
    /\ Len(transactions) = 3
    /\ replayIdx = 3
    /\ Len(portfolio) = 2
    /\ portfolio[1].reserved = Zero
    /\ portfolio[2].reserved = Zero
    /\ RGt0(portfolio[2].invested)
    /\ currentPrices = FallbackPrices
    /\ lastPriceUpdate = "failure time"

\* the shares, avgEntry and invested of a symbol's position
Holding(pf, etf) ==
    <<PositionOf(pf, etf).shares, PositionOf(pf, etf).avgEntry,
      PositionOf(pf, etf).invested>>

\* C21 as claimed, for the symbols whose history is wholly in the ledger:
\* in the local-storage version, once initializeApp has run and after any
\* records added through the form, every symbol of the ledger that the
\* initial positions do not list has in the patched positions the shares,
\* avgEntry and invested that the full replay of the ledger (BUY weighted
\* average, SELL at the average entry price, clamp to zero) gives it.
C21_PatchIsReplay ==
    appPc = "ready"
        => \A k \in 1..Len(transactions) :
            FindPosition(initialPortfolio, transactions[k].etf) = 0
                => Holding(portfolio, transactions[k].etf)
                    = Holding(ReplayFrom(<<>>, transactions), transactions[k].etf)

\* the ledger the next initializeApp takes when its read succeeds: the
\* cloud value if there is one, else the backup, and the seed ledger when
\* what it read is nothing or empty
LedgerOnReload ==
    LET saved == IF cloudStorageAvailable /\ cloud.present THEN JSONparse(cloud.text)
                 ELSE IF localBackup.present THEN JSONparse(localBackup.text)
                 ELSE <<>>
    IN  IF Len(saved) > 0 THEN saved ELSE SeedLedger

\* a step in which addTransaction or deleteTransaction runs to its end with
\* no other handler still waiting for its save
HandlerFinishes ==
    /\ appPc' = appPc
    /\ IF cloudStorageAvailable
       THEN /\ Len(inflight) = 1
            /\ inflight[1].handler \in {"add", "delete"}
            /\ inflight' = <<>>
       ELSE /\ transactions' # transactions
            /\ localBackup' # localBackup

\* C22 as claimed: when addTransaction or deleteTransaction has finished
\* and no save is still under way, whatever the cloud writes reported and in
\* whatever order overlapping saves completed, the next initializeApp would
\* load the ledger as it is now (one that still has records), and a cloud
\* copy, which the load prefers and writes over the backup, is not older
\* than that backup, that is, it holds the same ledger.
C22_DurableAcrossReload ==
    [][HandlerFinishes
        => /\ Len(transactions') > 0 => LedgerOnReload' = transactions'
           /\ (cloudStorageAvailable /\ cloud'.present) => cloud' = localBackup']_vars

\* the ledgers that have been persisted: what the cloud key and the backup
\* hold
PersistedLedgers ==
    {JSONparse(store.text) :
        store \in {st \in {cloud, localBackup} : st.present}}

\* a step in which loadTransactionsFromCloud returns to initializeApp
LoadTransactionsReturns == appPc = "loading" /\ appPc' # "loading"

\* C23 as claimed: when initializeApp has read the stores and a ledger was
\* persisted in one of them, the ledger it goes on with is a persisted one,
\* also when that ledger is empty because every record was deleted; the
\* seed ledger is installed only when nothing was persisted.
C23_SeedOnlyWhenNothingPersisted ==
    [][(LoadTransactionsReturns /\ PersistedLedgers # {})
        => transactions' \in PersistedLedgers]_vars

\* initializeApp has run to its end: the event listeners are installed and
\* the loading indicator is hidden
ListenersInstalled == appPc = "ready"

\* C24 as claimed: once initializeApp has drawn the page and started the
\* first quote request, it goes on to install the event listeners and hide
\* the loading indicator whether or not that request ever returns (unless
\* the page is loaded again first).
C24_QuotesNeverBlock ==
    (appPc = "fetching") ~> (ListenersInstalled \/ appPc = "loading")

====
